---- MODULE Spec2Model ----
(***************************************************************************)
(* Model of the port-emission analytics engine (src/data_simulation.py)    *)
(* and of the session state its Streamlit caller keeps (src/app.py,        *)
(* src/components/admin.py).                                               *)
(*                                                                         *)
(* Units.  Numbers the code keeps as floats are kept as integers in the    *)
(* unit the code rounds them to:                                           *)
(*   CO2_tons        hundredths of a ton   (np.round(co2, 2))              *)
(*   Dwell_Time_hr   tenths of an hour     (np.round(dwell, 1))            *)
(*   total_co2, avg_co2, emission_intensity   hundredths (round(x, 2))     *)
(*   eca_percent, non_eca_percent, compliance_rate, eca_weekly_change      *)
(*                   tenths               (round(x, 1))                    *)
(* Timestamps are integer ticks.  A second is TicksPerSecond ticks and a   *)
(* day SecondsPerDay seconds: a scaled-down clock that keeps what the      *)
(* code's date arithmetic depends on (instants finer than a second exist,  *)
(* a second is shorter than a day).                                        *)
(* NaN / NaT are values with nan = TRUE; comparisons with them are FALSE.   *)
(***************************************************************************)
EXTENDS Integers, Sequences, FiniteSets, TLC

VARIABLES
    now,            \* wall clock (ticks): what pd.Timestamp.utcnow() returns
    sortKind,       \* how this build's unstable sort orders equal keys
    prevGen,        \* the generate call before the last one
    lastGen,        \* the last generate call: [rows, seed, err, df]
    heap,           \* data buffers: buffer id -> sequence of records
    master,         \* the source DataFrame: [buf, rows]
    D0,             \* the records of master as first loaded (history)
    filters,        \* the FilterSet applied
    filtered,       \* apply_filters(master, filters), or None
    refiltered,     \* apply_filters(filtered, filters), or None
    mutated,        \* the caller has written into the filtered result
    defaults,       \* get_default_filters(master), or None
    df,             \* the slice handed to the aggregation functions
    co2_threshold,  \* st.session_state["co2_threshold"]
    kpis,           \* calculate_kpis(df), or None
    alert_result,   \* compliance_summary(df), or None
    time_series,    \* generate_time_series(df), or None
    anomalies,      \* highlight_anomalies(df, sigma), or None
    sweep,          \* the detector run at two sigmas on df, or None
    summary,        \* build_emission_summary(df), or None
    sankey,         \* generate_sankey_data(df) and what the caller drew, or None
    snapshot,       \* zone_snapshot(df), or None
    session,        \* st.session_state of one browser session
    run             \* what the last script run did: its input, stage and calls

genVars    == <<now, sortKind, prevGen, lastGen>>
filterVars == <<heap, master, D0, filters, filtered, refiltered, mutated, defaults>>
aggVars    == <<df, co2_threshold, kpis, alert_result, time_series, anomalies>>
viewVars   == <<sweep, summary, sankey, snapshot>>
appVars    == <<session, run>>
vars       == <<genVars, filterVars, aggVars, viewVars, appVars>>

\* an absent value is the empty tuple, a present one the 1-tuple Some(x)
None == <<>>
Some(x) == <<x>>

(***************************************************************************)
(* Bounds of the model                                                     *)
(***************************************************************************)
TicksPerSecond == 2
SecondsPerDay  == 3
MaxRows        == 2     \* largest row_count handed to the generator
MaxClockDays   == 1     \* days the wall clock may advance
MaxLen         == 2     \* longest dataset drawn for the filter model
MaxAggLen      == 3     \* longest slice drawn for the aggregation engine
MaxViewLen     == 6     \* longest slice drawn for the summary and flow views

Second == TicksPerSecond
Day    == SecondsPerDay * TicksPerSecond

(***************************************************************************)
(* Arithmetic helpers                                                      *)
(***************************************************************************)
Abs(x) == IF x < 0 THEN -x ELSE x

\* mutant: the fraction cut off (int()) instead of rounded
RoundHalfEven_Truncate(num, den) == num \div den

\* Python's round(): nearest integer to num/den (den > 0), ties to even.
RoundHalfEven(num, den) ==
    LET q == num \div den
        r == num % den
    IN  IF 2 * r < den THEN q
        ELSE IF 2 * r > den THEN q + 1
        ELSE IF q % 2 = 0 THEN q ELSE q + 1

\* np.clip
Clip(x, lo, hi) == IF x < lo THEN lo ELSE IF x > hi THEN hi ELSE x

\* pd.Timestamp.normalize(): floor to midnight
Normalize(t) == (t \div Day) * Day

RECURSIVE SumSeq(_)
SumSeq(s) == IF s = <<>> THEN 0 ELSE Head(s) + SumSeq(Tail(s))

RECURSIVE SeqsUpTo(_, _)
SeqsUpTo(S, n) ==
    IF n = 0 THEN {<<>>}
    ELSE LET shorter == SeqsUpTo(S, n - 1)
         IN  shorter \cup {Append(s, x) : s \in {t \in shorter : Len(t) = n - 1}, x \in S}

Range(s) == {s[i] : i \in 1..Len(s)}

(***************************************************************************)
(* Module constants of data_simulation.py                                  *)
(***************************************************************************)
ZONES        == <<"ECA", "Non-ECA">>
FUEL_TYPES   == <<"HFO", "MGO", "LNG", "Hybrid">>
VESSEL_TYPES == <<"Bulk Carrier", "Container", "Tanker", "Ro-Ro", "Offshore">>
DEFAULT_ALERT_THRESHOLD == 1500

(***************************************************************************)
(* Dataset Synthesizer: generate_vessel_dataframe                          *)
(*                                                                         *)
(* np.random.default_rng(seed) is a deterministic stream: the k-th raw     *)
(* draw is a function of (seed, k).  The stream is a small congruential    *)
(* generator; the columns consume it in the order the code draws them.     *)
(* faker = Faker() is module-global and never seeded: each color_name()    *)
(* is a free choice.  Columns no aggregation reads (SOx, NOx, speed, lat,  *)
(* lon) only consume their draws.                                          *)
(***************************************************************************)
Seeds      == {42, 7, 3}
ColorNames == {"Red", "Blue"}

RngStep(s) == (s * 75 + 74) % 65537

RECURSIVE RngState(_, _)
RngState(seed, k) == IF k = 0 THEN seed % 65537 ELSE RngStep(RngState(seed, k - 1))

\* the states RngState(seed, 0), RngState(seed, 1), ... of every seed, as far
\* as a call of MaxRows rows consumes them, computed once
RECURSIVE RngStream(_, _)
RngStream(s, n) == IF n = 0 THEN <<s>> ELSE <<s>> \o RngStream(RngStep(s), n - 1)
RngStreams == {<<seed, RngStream(RngState(seed, 0), 14 * MaxRows)>> : seed \in Seeds}

\* the i-th draw (1-based) of the c-th vectorised call (0-based) of size rows
Draw(seed, rows, c, i) == (CHOOSE p \in RngStreams : p[1] = seed)[2][c * rows + i + 1]

\* rng.choice(ZONES, p=[0.45, 0.55])
ChooseZone(u) == IF u % 100 < 45 THEN ZONES[1] ELSE ZONES[2]

\* rng.choice(FUEL_TYPES, p=[0.42, 0.32, 0.18, 0.08])
ChooseFuel(u) ==
    LET v == u % 100
    IN  IF v < 42 THEN FUEL_TYPES[1]
        ELSE IF v < 74 THEN FUEL_TYPES[2]
        ELSE IF v < 92 THEN FUEL_TYPES[3]
        ELSE FUEL_TYPES[4]

\* rng.choice(VESSEL_TYPES)
ChooseVesselType(u) == VESSEL_TYPES[(u % Len(VESSEL_TYPES)) + 1]

\* standard-normal deviates a draw can land on, in hundredths of a sigma
ZTable == <<-300, -120, -40, 0, 78, 120, 360>>

\* rng.normal(loc, scale): loc + scale * z, scale given per hundredth of a sigma
Normal(u, loc, scaleHundredth) == loc + scaleHundredth * ZTable[(u % Len(ZTable)) + 1]

\* base_co2 in thousandths of a ton: rng.normal(12.5, 3.2)
BaseCo2(u) == Normal(u, 12500, 32)

\* eca_adjustment in ten-thousandths: np.where(zone == "ECA", rng.normal(1.2, 0.25), 1)
EcaAdjustment(zone, u) == IF zone = "ECA" THEN Normal(u, 12000, 25) ELSE 10000

\* mutant: the clip to [4.5, 24] left out
RawCo2_Unclipped(zone, ub, ua) == BaseCo2(ub) * EcaAdjustment(zone, ua)

\* co2 = np.clip(base_co2 * eca_adjustment, 4.5, 24), in 1e-7 tons
RawCo2(zone, ub, ua) == Clip(BaseCo2(ub) * EcaAdjustment(zone, ua), 45000000, 240000000)

\* dwell = np.clip(rng.normal(48, 18), 8, 110), in thousandths of an hour
RawDwell(u) == Clip(Normal(u, 48000, 180), 8000, 110000)

\* rng.random() < 0.12: the row is selected for the noise flip
NoiseFlip(u) == u % 100 < 12

\* compliance = co2 < DEFAULT_ALERT_THRESHOLD, inverted where rng.random() < 0.12
ComplianceFlag(rawCo2, u) ==
    LET c == rawCo2 < DEFAULT_ALERT_THRESHOLD * 100000
    IN  IF NoiseFlip(u) THEN ~c ELSE c

\* dates = rng.choice(pd.date_range(end - 29 days, end, freq="D")), end = utcnow().normalize()
ChooseDate(clock, u) == (Normalize(clock) - 29 * Day) + (u % 30) * Day

\* the record built for loop index idx (0-based), lines 57-76
BuildRecord(rows, seed, names, clock, idx) ==
    LET i    == idx + 1
        zone == ChooseZone(Draw(seed, rows, 1, i))
        raw  == RawCo2(zone, Draw(seed, rows, 4, i), Draw(seed, rows, 5, i))
    IN  [ idx             |-> idx,
          IMO_Number      |-> 9100000 + (Draw(seed, rows, 13, i) % 799999),
          Vessel_Name     |-> <<"MV", names[i], idx>>,
          Zone            |-> zone,
          Fuel_Type       |-> ChooseFuel(Draw(seed, rows, 2, i)),
          Vessel_Type     |-> ChooseVesselType(Draw(seed, rows, 3, i)),
          CO2_tons        |-> RoundHalfEven(raw, 100000),
          Dwell_Time_hr   |-> RoundHalfEven(RawDwell(Draw(seed, rows, 9, i)), 100),
          Compliance_Flag |-> ComplianceFlag(raw, Draw(seed, rows, 10, i)),
          Date            |-> ChooseDate(clock, Draw(seed, rows, 0, i)) ]

RemoveAt(s, i) == SubSeq(s, 1, i - 1) \o SubSeq(s, i + 1, Len(s))

\* position of the record sort_values("Date") emits first: the least Date;
\* among equal dates the earliest row when the sort is stable, and the
\* latest row in a build whose quicksort is not
FirstByDate(s, kind) ==
    LET least == {i \in 1..Len(s) : \A j \in 1..Len(s) : s[i].Date <= s[j].Date}
    IN  IF kind = "stable"
        THEN CHOOSE i \in least : \A j \in least : i <= j
        ELSE CHOOSE i \in least : \A j \in least : i >= j

\* df.sort_values("Date", inplace=True)
RECURSIVE SortByDate(_, _)
SortByDate(s, kind) ==
    IF s = <<>> THEN <<>>
    ELSE LET i == FirstByDate(s, kind)
         IN  <<s[i]>> \o SortByDate(RemoveAt(s, i), kind)

\* generate_vessel_dataframe(rows, seed).  rng.choice(size=rows) rejects a
\* negative size; with rows = 0 pd.DataFrame([]) has no columns and line 79
\* fails on df["CO2_tons"].
generate_vessel_dataframe(rows, seed, names, clock, kind) ==
    IF rows < 0 THEN [err |-> "ValueError", df |-> <<>>]
    ELSE IF rows = 0 THEN [err |-> "KeyError", df |-> <<>>]
    ELSE [err |-> "",
          df  |-> SortByDate([k \in 1..rows |-> BuildRecord(rows, seed, names, clock, k - 1)],
                             kind)]

\* one call of the generator by the caller
Generate ==
    /\ \E rows \in -1..MaxRows, seed \in Seeds :
         \E names \in [1..(IF rows > 0 THEN rows ELSE 0) -> ColorNames] :
            /\ prevGen' = lastGen
            /\ lastGen' = Some([rows |-> rows, seed |-> seed,
                                out  |-> generate_vessel_dataframe(rows, seed, names, now, sortKind)])
    /\ UNCHANGED <<now, sortKind, filterVars, aggVars, viewVars, appVars>>

\* the wall clock passes midnight
Tick ==
    /\ now < (29 + MaxClockDays) * Day
    /\ now' = now + Day
    /\ UNCHANGED <<sortKind, prevGen, lastGen, filterVars, aggVars, viewVars, appVars>>


(***************************************************************************)
(* Filter Model: FilterSet, get_default_filters, apply_filters             *)
(*                                                                         *)
(* A DataFrame is a reference [buf, rows]: the buffer holding its data     *)
(* and the positions of its rows in that buffer.  df.loc[mask] selects     *)
(* rows of the same buffer; .copy() moves them to a buffer of their own.   *)
(***************************************************************************)
Content(h, d) == [i \in 1..Len(d.rows) |-> h[d.buf][d.rows[i]]]

\* the boolean mask of lines 96-102, for one record
FilterMask(rec, F) ==
    /\ rec.Date >= F.start
    /\ rec.Date <= F.end + Day - Second
    /\ rec.Zone \in F.zones
    /\ rec.Vessel_Type \in F.vessel_types
    /\ rec.Fuel_Type \in F.fuel_types

\* df.loc[mask]: the selected rows, still in df's buffer
LocMask(h, d, F) ==
    [buf |-> d.buf, rows |-> SelectSeq(d.rows, LAMBDA p : FilterMask(h[d.buf][p], F))]

\* .copy(): the rows of view v written to buffer newBuf
Copy(h, v, newBuf) ==
    [heap |-> [h EXCEPT ![newBuf] = Content(h, v)],
     df   |-> [buf |-> newBuf, rows |-> [i \in 1..Len(v.rows) |-> i]]]

\* mutant: return df.loc[mask] without .copy()
apply_filters_NoCopy(h, d, F, newBuf) == [heap |-> h, df |-> LocMask(h, d, F)]

\* mutant: an off-by-one slice drops the first selected row (.iloc[1:])
apply_filters_SkipFirst(h, d, F, newBuf) ==
    LET v == LocMask(h, d, F)
    IN  Copy(h, [v EXCEPT !.rows = IF v.rows = <<>> THEN <<>> ELSE Tail(v.rows)], newBuf)

\* apply_filters(df, filters) == df.loc[mask].copy()
apply_filters(h, d, F, newBuf) == Copy(h, LocMask(h, d, F), newBuf)

\* get_default_filters(df), for the records recs of a non-empty df
get_default_filters(recs) ==
    LET dates == {recs[i].Date : i \in 1..Len(recs)}
    IN  [start        |-> Normalize(CHOOSE d \in dates : \A e \in dates : d <= e),
         end          |-> Normalize(CHOOSE d \in dates : \A e \in dates : d >= e),
         zones        |-> Range(ZONES),
         vessel_types |-> {recs[i].Vessel_Type : i \in 1..Len(recs)},
         fuel_types   |-> {recs[i].Fuel_Type : i \in 1..Len(recs)}]

\* a record with the fields the filter reads; the rest take fixed values
Rec(date, zone, fuel, vtype, co2) ==
    [ idx |-> 0, IMO_Number |-> 9100000, Vessel_Name |-> <<"MV", "Red", 0>>,
      Zone |-> zone, Fuel_Type |-> fuel, Vessel_Type |-> vtype, CO2_tons |-> co2,
      Dwell_Time_hr |-> 480, Compliance_Flag |-> TRUE, Date |-> date ]

\* the index labels pandas gives the rows of a new frame: 0, 1, ...
WithIndex(s) == [i \in 1..Len(s) |-> [s[i] EXCEPT !.idx = i - 1]]

\* records the filter model draws its datasets from: midnight, the last
\* whole second of a day and the last instant of a day
FilterPool ==
    { Rec(0,                "ECA",     "HFO", "Tanker",    1200),
      Rec(Day,              "Non-ECA", "MGO", "Tanker",    1600),
      Rec(2 * Day - Second, "ECA",     "MGO", "Container", 900),
      Rec(2 * Day - 1,      "Non-ECA", "HFO", "Container", 2000),
      Rec(2 * Day,          "ECA",     "HFO", "Container", 1500) }

\* FilterSets the caller builds: day-granular bounds (start after end
\* included), full, partial and empty selections
FilterSets ==
    [ start        : {0, Day},
      end          : {0, Day},
      zones        : {{}, {"ECA"}, {"ECA", "Non-ECA"}},
      vessel_types : {{"Tanker"}, {"Tanker", "Container"}},
      fuel_types   : {{"HFO"}, {"HFO", "MGO"}} ]

\* filtered_df = apply_filters(master_df, filters)
ApplyFilters ==
    /\ LET r == apply_filters(heap, master, filters, "filtered")
       IN  /\ heap' = r.heap
           /\ filtered' = Some(r.df)
    /\ refiltered' = None
    /\ mutated' = FALSE
    /\ UNCHANGED <<master, D0, filters, defaults, genVars, aggVars, viewVars, appVars>>

\* the same FilterSet applied to the filtered result
Reapply ==
    /\ filtered # None
    /\ ~mutated
    /\ LET r == apply_filters(heap, filtered[1], filters, "refiltered")
       IN  /\ heap' = r.heap
           /\ refiltered' = Some(r.df)
    /\ UNCHANGED <<master, D0, filters, defaults, filtered, mutated, genVars, aggVars, viewVars, appVars>>

\* the caller writes a cell of the filtered result: filtered.loc[i, "CO2_tons"] = v
MutateResult ==
    /\ filtered # None
    /\ \E i \in 1..Len(filtered[1].rows), v \in {0, 2400} :
          heap' = [heap EXCEPT ![filtered[1].buf][filtered[1].rows[i]].CO2_tons = v]
    /\ mutated' = TRUE
    /\ refiltered' = None
    /\ UNCHANGED <<master, D0, filters, defaults, filtered, genVars, aggVars, viewVars, appVars>>

\* the filters reset to the defaults and applied:
\* apply_filters(master_df, get_default_filters(master_df))
ApplyDefaultFilters ==
    /\ master.rows # <<>>
    /\ LET F == get_default_filters(Content(heap, master))
           r == apply_filters(heap, master, F, "filtered")
       IN  /\ filters' = F
           /\ defaults' = Some(F)
           /\ heap' = r.heap
           /\ filtered' = Some(r.df)
    /\ refiltered' = None
    /\ mutated' = FALSE
    /\ UNCHANGED <<master, D0, genVars, aggVars, viewVars, appVars>>

\* defaults = get_default_filters(master_df), in init_filter_state and on
\* "Reset Filters".  min() and max() of an empty Date column are NaT; the
\* frame the app loads always holds records.
GetDefaultFilters ==
    /\ master.rows # <<>>
    /\ defaults' = Some(get_default_filters(Content(heap, master)))
    /\ UNCHANGED <<heap, master, D0, filters, filtered, refiltered, mutated,
                   genVars, aggVars, viewVars, appVars>>


(***************************************************************************)
(* Aggregation Engine: calculate_kpis                                      *)
(*                                                                         *)
(* An unrounded float is a fraction [num, den, nan, err] in the natural    *)
(* unit (tons, percent, tons per day): nan when numpy yields NaN, err when *)
(* Python's float division raises.                                         *)
(***************************************************************************)
Frac(n, d) == [num |-> n, den |-> d, nan |-> FALSE, err |-> FALSE]
NaNValue   == [num |-> 0, den |-> 1, nan |-> TRUE,  err |-> FALSE]
ZeroDiv    == [num |-> 0, den |-> 1, nan |-> FALSE, err |-> TRUE]

\* a / b for Python floats: ZeroDivisionError when b = 0
PyDiv(a, b) == IF b = 0 THEN ZeroDiv ELSE Frac(a, b)

\* a / b for numpy floats: NaN (or inf) when b = 0, no exception
NpDiv(a, b) == IF b = 0 THEN NaNValue ELSE Frac(a, b)

\* round(x, k) of the fraction x, in units of 10^-k (scale = 10^k)
Round(x, scale) ==
    IF x.den > 0 THEN RoundHalfEven(x.num * scale, x.den)
    ELSE RoundHalfEven(-(x.num * scale), -x.den)

Co2Of(d)   == [i \in 1..Len(d) |-> d[i].CO2_tons]
DwellOf(d) == [i \in 1..Len(d) |-> d[i].Dwell_Time_hr]
InZone(d, zone) == SelectSeq(d, LAMBDA r : r.Zone = zone)

RECURSIVE SumOver(_, _)
SumOver(S, f) ==
    IF S = {} THEN 0
    ELSE LET x == CHOOSE y \in S : TRUE IN f[x] + SumOver(S \ {x}, f)

RECURSIVE ProdOver(_, _)
ProdOver(S, f) ==
    IF S = {} THEN 1
    ELSE LET x == CHOOSE y \in S : TRUE IN f[x] * ProdOver(S \ {x}, f)

\* df["CO2_tons"].sum(), hundredths
TotalCo2(d) == SumSeq(Co2Of(d))

\* df.groupby("IMO_Number")["CO2_tons"].mean().mean() if not df.empty else 0.0
AvgPerVessel(d) ==
    IF d = <<>> THEN Frac(0, 1)
    ELSE LET imos == {d[i].IMO_Number : i \in 1..Len(d)}
             cnt  == [g \in imos |-> Cardinality({i \in 1..Len(d) : d[i].IMO_Number = g})]
             sum  == [g \in imos |-> TotalCo2(SelectSeq(d, LAMBDA r : r.IMO_Number = g))]
             P    == ProdOver(imos, cnt)
         IN  Frac(SumOver(imos, [g \in imos |-> sum[g] * (P \div cnt[g])]),
                  100 * P * Cardinality(imos))

\* mutant: the zero-total guard dropped
EcaShare_Unguarded(d) == PyDiv(TotalCo2(InZone(d, "ECA")) * 100, TotalCo2(d))

\* eca_share: ECA sum / total_co2 * 100 if total_co2 else 0.0   (percent)
EcaShare(d) ==
    IF TotalCo2(d) # 0 THEN PyDiv(TotalCo2(InZone(d, "ECA")) * 100, TotalCo2(d))
    ELSE Frac(0, 1)

\* mutant: the complement taken of a fraction of 1, not of a percentage
NonEcaShare_OfOne(d) ==
    IF TotalCo2(d) # 0
    THEN LET e == EcaShare(d) IN [e EXCEPT !.num = e.den - e.num]
    ELSE Frac(0, 1)

\* non_eca_share = 100 - eca_share if total_co2 else 0.0
NonEcaShare(d) ==
    IF TotalCo2(d) # 0
    THEN LET e == EcaShare(d) IN [e EXCEPT !.num = 100 * e.den - e.num]
    ELSE Frac(0, 1)

\* df["Compliance_Flag"].mean() * 100 if not df.empty else 0.0
ComplianceRate(d) ==
    IF d = <<>> THEN Frac(0, 1)
    ELSE Frac(100 * Len(SelectSeq(d, LAMBDA r : r.Compliance_Flag)), Len(d))

\* int((df["CO2_tons"] > DEFAULT_ALERT_THRESHOLD).sum())
AlertCount(d) == Len(SelectSeq(d, LAMBDA r : r.CO2_tons > DEFAULT_ALERT_THRESHOLD))

\* sum(co2) / sum(dwell) * 24 if sum(dwell) else 0.0: tons per day, co2 in
\* hundredths of a ton over dwell in tenths of an hour
EmissionIntensity(d) ==
    IF SumSeq(DwellOf(d)) # 0 THEN NpDiv(TotalCo2(d) * 10 * 24, 100 * SumSeq(DwellOf(d)))
    ELSE Frac(0, 1)

\* df["Date"].max(): NaT on an empty frame
MaxDate(d) ==
    IF d = <<>> THEN [nan |-> TRUE, t |-> 0]
    ELSE [nan |-> FALSE,
          t   |-> CHOOSE t \in {d[i].Date : i \in 1..Len(d)} :
                     \A i \in 1..Len(d) : d[i].Date <= t]

\* df[df["Date"] >= max - 6 days]
LatestWeek(d) ==
    LET m == MaxDate(d)
    IN  SelectSeq(d, LAMBDA r : ~m.nan /\ r.Date >= m.t - 6 * Day)

\* df[(df["Date"] < max - 6 days) & (df["Date"] >= max - 13 days)]
PreviousWeek(d) ==
    LET m == MaxDate(d)
    IN  SelectSeq(d, LAMBDA r : ~m.nan /\ r.Date < m.t - 6 * Day /\ r.Date >= m.t - 13 * Day)

\* delta_week = (eca_week - eca_prev) / eca_prev * 100 if eca_prev else 0.0
DeltaWeek(d) ==
    LET eca_week == TotalCo2(InZone(LatestWeek(d), "ECA"))
        eca_prev == TotalCo2(InZone(PreviousWeek(d), "ECA"))
    IN  IF eca_prev # 0 THEN NpDiv((eca_week - eca_prev) * 100, eca_prev) ELSE Frac(0, 1)

\* a rounded KPI: round() of NaN is NaN
Kpi(x, scale) == IF x.nan THEN [nan |-> TRUE, v |-> 0] ELSE [nan |-> FALSE, v |-> Round(x, scale)]

\* calculate_kpis(df): the returned dict, or the exception it raises
calculate_kpis(d) ==
    IF EcaShare(d).err \/ NonEcaShare(d).err
    THEN [err |-> "ZeroDivisionError"]
    ELSE [err                |-> "",
          total_co2          |-> Kpi(Frac(TotalCo2(d), 100), 100),
          avg_co2            |-> Kpi(AvgPerVessel(d), 100),
          eca_percent        |-> Kpi(EcaShare(d), 10),
          non_eca_percent    |-> Kpi(NonEcaShare(d), 10),
          compliance_rate    |-> Kpi(ComplianceRate(d), 10),
          alerts             |-> AlertCount(d),
          emission_intensity |-> Kpi(EmissionIntensity(d), 100),
          eca_weekly_change  |-> Kpi(DeltaWeek(d), 10)]


(***************************************************************************)
(* Compliance alerts, time series, anomalies                               *)
(***************************************************************************)
\* position of the record sort_values("CO2_tons", ascending=False) emits
\* first; equal values as FirstByDate orders equal dates
FirstByCo2Desc(s, kind) ==
    LET most == {i \in 1..Len(s) : \A j \in 1..Len(s) : s[i].CO2_tons >= s[j].CO2_tons}
    IN  IF kind = "stable"
        THEN CHOOSE i \in most : \A j \in most : i <= j
        ELSE CHOOSE i \in most : \A j \in most : i >= j

RECURSIVE SortByCo2Desc(_, _)
SortByCo2Desc(s, kind) ==
    IF s = <<>> THEN <<>>
    ELSE LET i == FirstByCo2Desc(s, kind)
         IN  <<s[i]>> \o SortByCo2Desc(RemoveAt(s, i), kind)

\* compliance_summary(df)
compliance_summary(d, kind) ==
    [rate   |-> Kpi(ComplianceRate(d), 10),
     alerts |-> SortByCo2Desc(SelectSeq(d, LAMBDA r : r.CO2_tons > DEFAULT_ALERT_THRESHOLD), kind)]

\* the ascending sequence of the elements of a set of timestamps
RECURSIVE Ascending(_)
Ascending(S) ==
    IF S = {} THEN <<>>
    ELSE LET m == CHOOSE x \in S : \A y \in S : x <= y
         IN  <<m>> \o Ascending(S \ {m})

\* groupby(["Date", "Zone"]).sum() pivoted on Zone with fill_value=0, then
\* sort_index().reset_index(): one row per date, one column per zone present
PivotByZone(d) ==
    LET zones == {d[i].Zone : i \in 1..Len(d)}
        dates == Ascending({d[i].Date : i \in 1..Len(d)})
        cell(t, z) == TotalCo2(SelectSeq(d, LAMBDA r : r.Date = t /\ r.Zone = z))
        has(t, z)  == \E i \in 1..Len(d) : d[i].Date = t /\ d[i].Zone = z
    IN  [columns |-> zones,
         rows    |-> [k \in 1..Len(dates) |->
                        [Date |-> dates[k],
                         val  |-> [z \in zones |-> IF has(dates[k], z) THEN cell(dates[k], z) ELSE 0]]]]

\* if name not in ts.columns: ts[name] = 0.0
EnsureColumn(ts, name) ==
    IF name \in ts.columns THEN ts
    ELSE [columns |-> ts.columns \cup {name},
          rows    |-> [k \in 1..Len(ts.rows) |->
                         [Date |-> ts.rows[k].Date,
                          val  |-> [z \in ts.columns \cup {name} |->
                                      IF z = name THEN 0 ELSE ts.rows[k].val[z]]]]]

\* mutant: only the ECA column is guaranteed
generate_time_series_EcaOnly(d) == EnsureColumn(PivotByZone(d), "ECA")

\* generate_time_series(df)
generate_time_series(d) == EnsureColumn(EnsureColumn(PivotByZone(d), "ECA"), "Non-ECA")

\* sigma values handed to the anomaly detector, in halves (3 is 1.5)
Sigmas == {-2, 0, 3, 4}

\* mutant: the deviation subtracted, mean - sigma * std
AnomalyThreshold_Minus(d, k) ==
    LET x == [i \in 1..Len(d) |-> d[i].CO2_tons]
        n == Len(d)
    IN  [nan |-> n < 2, n |-> n, sum |-> SumSeq(x), k |-> -k,
         sq  |-> n * SumSeq([i \in 1..n |-> x[i] * x[i]]) - SumSeq(x) * SumSeq(x)]

\* threshold = df["CO2_tons"].mean() + sigma * df["CO2_tons"].std(): the mean
\* is sum / n (NaN when n = 0), std the sample deviation sqrt(sq / (n (n - 1)))
\* with sq = n * sum(x^2) - sum(x)^2 (NaN when n < 2).  The value is kept
\* symbolically: [nan, n, sum, sq, k].
AnomalyThreshold(d, k) ==
    LET x == Co2Of(d)
        n == Len(d)
    IN  [nan |-> n < 2, n |-> n, sum |-> SumSeq(x), k |-> k,
         sq  |-> n * SumSeq([i \in 1..n |-> x[i] * x[i]]) - SumSeq(x) * SumSeq(x)]

\* v > mean + (k/2) * std for a threshold that is a number, decided on the
\* squares: with dev = n v - sum, 4 dev^2 (n-1) against k^2 n sq
CompareGt(v, th) ==
    LET dev == th.n * v - th.sum
        lhs == 4 * dev * dev * (th.n - 1)
        rhs == th.k * th.k * th.n * th.sq
    IN  IF th.k >= 0 THEN dev > 0 /\ lhs > rhs
        ELSE \/ dev > 0
             \/ dev = 0 /\ rhs > 0
             \/ dev < 0 /\ lhs < rhs

\* mutant: the test written as "not <=", which NaN passes
ExceedsThreshold_NotLe(v, th) == th.nan \/ CompareGt(v, th)

\* df["CO2_tons"] > threshold: FALSE against NaN
ExceedsThreshold(v, th) == ~th.nan /\ CompareGt(v, th)

\* highlight_anomalies(df, sigma)
highlight_anomalies(d, k, kind) ==
    SortByCo2Desc(SelectSeq(d, LAMBDA r : ExceedsThreshold(r.CO2_tons, AnomalyThreshold(d, k))), kind)


(***************************************************************************)
(* The caller of the aggregation engine                                    *)
(***************************************************************************)
AggRec(date, zone, fuel, co2, imo, dwell, flag) ==
    [ idx |-> 0, IMO_Number |-> imo, Vessel_Name |-> <<"MV", "Red", 0>>,
      Zone |-> zone, Fuel_Type |-> fuel, Vessel_Type |-> "Tanker", CO2_tons |-> co2,
      Dwell_Time_hr |-> dwell, Compliance_Flag |-> flag, Date |-> date ]

\* the three records of the specification's KPI scenario
Scenario ==
    WithIndex(<< AggRec(20 * Day, "ECA",     "HFO", 2000, 9100001, 480, FALSE),
                 AggRec(20 * Day, "Non-ECA", "MGO", 1000, 9100002, 240, TRUE),
                 AggRec(20 * Day, "ECA",     "LNG", 500,  9100001, 100, TRUE) >>)

\* records the aggregation model draws its slices from: the scenario's, one
\* at midnight a week before them at exactly the alert threshold, one past
\* midnight of the day between with no emission and no dwell time
AggPool ==
    Range(Scenario) \cup
    { AggRec(13 * Day,     "ECA",     "MGO", 1500, 9100002, 300, TRUE),
      AggRec(19 * Day + 1, "Non-ECA", "HFO", 0,    9100003, 0,   FALSE) }

\* values of the admin console's number_input(min 5.0, max 30.0, step 0.5)
Thresholds == {500, 1500, 3000}

\* kpis = calculate_kpis(filtered_df)
CalculateKpis ==
    /\ kpis' = Some(calculate_kpis(df))
    /\ UNCHANGED <<df, co2_threshold, alert_result, time_series, anomalies, genVars, filterVars, viewVars, appVars>>

\* render_compliance_alerts: summary = compliance_summary(df)
RenderComplianceAlerts ==
    /\ alert_result' = Some(compliance_summary(df, sortKind))
    /\ UNCHANGED <<df, co2_threshold, kpis, time_series, anomalies, genVars, filterVars, viewVars, appVars>>

\* render_overview: time_series = generate_time_series(df)
RenderTimeSeries ==
    /\ time_series' = Some(generate_time_series(df))
    /\ UNCHANGED <<df, co2_threshold, kpis, alert_result, anomalies, genVars, filterVars, viewVars, appVars>>

\* anomalies = highlight_anomalies(df, sigma)
HighlightAnomalies ==
    /\ \E k \in Sigmas :
          anomalies' = Some([sigma |-> k, rows |-> highlight_anomalies(df, k, sortKind)])
    /\ UNCHANGED <<df, co2_threshold, kpis, alert_result, time_series, genVars, filterVars, viewVars, appVars>>

\* render_admin_panel: st.session_state["co2_threshold"] = threshold.  The
\* script then reruns from the top, so what the previous run drew is gone.
RenderAdminPanel ==
    /\ \E t \in Thresholds : co2_threshold' = Some(t)
    /\ kpis' = None
    /\ alert_result' = None
    /\ time_series' = None
    /\ anomalies' = None
    /\ UNCHANGED <<df, genVars, filterVars, viewVars, appVars>>


(***************************************************************************)
(* Executive summary and fuel-to-zone flow                                 *)
(***************************************************************************)
\* .head(5)
TopN == 5

\* df.head(n)
HeadRows(s, n) == SubSeq(s, 1, IF Len(s) < n THEN Len(s) ELSE n)

\* build_emission_summary(df)
build_emission_summary(d, kind) ==
    [eca_total     |-> TotalCo2(InZone(d, "ECA")),
     non_eca_total |-> TotalCo2(InZone(d, "Non-ECA")),
     compliance    |-> Kpi(ComplianceRate(d), 10),
     top_emitters  |-> HeadRows(SortByCo2Desc(d, kind), TopN)]

\* the order groupby() sorts its keys in: strings by code point
FuelOrder == <<"HFO", "Hybrid", "LNG", "MGO">>
ZoneOrder == <<"ECA", "Non-ECA">>

\* every (Fuel_Type, Zone) key, in groupby order
GroupKeys ==
    [k \in 1..(Len(FuelOrder) * Len(ZoneOrder)) |->
        [Fuel_Type |-> FuelOrder[((k - 1) \div Len(ZoneOrder)) + 1],
         Zone      |-> ZoneOrder[((k - 1) % Len(ZoneOrder)) + 1]]]

\* df.groupby(["Fuel_Type", "Zone"])["CO2_tons"].sum().reset_index(): one row
\* per pair that has a record, whatever its sum
FuelZoneTotals(d) ==
    LET group(g) == SelectSeq(d, LAMBDA r : r.Fuel_Type = g.Fuel_Type /\ r.Zone = g.Zone)
        present  == SelectSeq(GroupKeys, LAMBDA g : group(g) # <<>>)
    IN  [k \in 1..Len(present) |->
            [Fuel_Type |-> present[k].Fuel_Type,
             Zone      |-> present[k].Zone,
             CO2_tons  |-> TotalCo2(group(present[k]))]]

\* Series.unique().tolist(): the values in order of first appearance
RECURSIVE Unique(_)
Unique(s) ==
    IF s = <<>> THEN <<>>
    ELSE LET rest == Unique(SubSeq(s, 1, Len(s) - 1))
         IN  IF s[Len(s)] \in Range(rest) THEN rest ELSE Append(rest, s[Len(s)])

\* f"{row['Zone']} Emissions"
ZoneLabel(z) == CASE z = "ECA" -> "ECA Emissions" [] z = "Non-ECA" -> "Non-ECA Emissions"

\* mutant: positions counted from 1
NodeIndex_OneBased(nodes, name) == CHOOSE i \in 1..Len(nodes) : nodes[i] = name

\* node_index[name], from enumerate(nodes): positions counted from 0
NodeIndex(nodes, name) == (CHOOSE i \in 1..Len(nodes) : nodes[i] = name) - 1

\* mutant: the target looked up by the row's fuel type
SankeyTarget_ByFuel(nodes, row) == NodeIndex(nodes, row.Fuel_Type)

\* node_index[f"{row['Zone']} Emissions"]
SankeyTarget(nodes, row) == NodeIndex(nodes, ZoneLabel(row.Zone))

\* generate_sankey_data(df); values in hundredths of a ton
generate_sankey_data(d) ==
    LET zone_totals == FuelZoneTotals(d)
        n           == Len(zone_totals)
        fuel_nodes  == Unique([k \in 1..n |-> zone_totals[k].Fuel_Type])
        zone_nodes  == <<"ECA Emissions", "Non-ECA Emissions">>
        nodes       == fuel_nodes \o zone_nodes
    IN  IF zone_totals = <<>>
        THEN [nodes |-> <<>>, sources |-> <<>>, targets |-> <<>>, values |-> <<>>]
        ELSE [nodes   |-> nodes,
              sources |-> [k \in 1..n |-> NodeIndex(nodes, zone_totals[k].Fuel_Type)],
              targets |-> [k \in 1..n |-> SankeyTarget(nodes, zone_totals[k])],
              values  |-> [k \in 1..n |-> zone_totals[k].CO2_tons]]

\* Emission_Intensity of a record: (CO2_tons / Dwell_Time_hr.replace(0, nan))
\* .round(3), in thousandths of a ton per hour
RecordIntensity(r) ==
    IF r.Dwell_Time_hr = 0 THEN [nan |-> TRUE, v |-> 0]
    ELSE [nan |-> FALSE, v |-> RoundHalfEven(100 * r.CO2_tons, r.Dwell_Time_hr)]

\* round(float(frame["Emission_Intensity"].mean()), 2): the mean skips NaN
\* and is NaN when nothing is left; hundredths
CardIntensity(frame) ==
    LET known == SelectSeq(frame, LAMBDA r : ~RecordIntensity(r).nan)
    IN  IF known = <<>> THEN [nan |-> TRUE, v |-> 0]
        ELSE [nan |-> FALSE,
              v   |-> RoundHalfEven(SumSeq([i \in 1..Len(known) |-> RecordIntensity(known[i]).v]),
                                    10 * Len(known))]

\* mutant: a record at the threshold counted as an alert
CardAlerts_AtLeast(frame) == Len(SelectSeq(frame, LAMBDA r : r.CO2_tons >= DEFAULT_ALERT_THRESHOLD))

\* int((frame["CO2_tons"] > DEFAULT_ALERT_THRESHOLD).sum())
CardAlerts(frame) == Len(SelectSeq(frame, LAMBDA r : r.CO2_tons > DEFAULT_ALERT_THRESHOLD))

\* zone_snapshot(df): one card per zone that has a record, in groupby order
zone_snapshot(d) ==
    LET zones == SelectSeq(ZoneOrder, LAMBDA z : InZone(d, z) # <<>>)
    IN  [k \in 1..Len(zones) |->
            [zone       |-> zones[k],
             co2        |-> TotalCo2(InZone(d, zones[k])),
             intensity  |-> CardIntensity(InZone(d, zones[k])),
             compliance |-> Kpi(ComplianceRate(InZone(d, zones[k])), 10),
             alerts     |-> CardAlerts(InZone(d, zones[k]))]]

\* render_overview: zone_cards = zone_snapshot(df)
ZoneSnapshot ==
    /\ snapshot' = Some(zone_snapshot(df))
    /\ UNCHANGED <<sweep, summary, sankey, genVars, filterVars, aggVars, appVars>>

\* records the views draw their slices from: one fuel in both zones, a
\* second fuel whose only record emits nothing
ViewPool ==
    { AggRec(20 * Day, "ECA",     "HFO", 400, 9100001, 480, FALSE),
      AggRec(20 * Day, "Non-ECA", "HFO", 100, 9100002, 240, TRUE),
      AggRec(21 * Day, "ECA",     "LNG", 0,   9100003, 100, TRUE) }

\* the detector run on the same slice at two sigmas, sigma1 <= sigma2
SweepAnomalies ==
    /\ \E k1, k2 \in Sigmas :
          /\ k1 <= k2
          /\ sweep' = Some([lo |-> [sigma |-> k1, rows |-> highlight_anomalies(df, k1, sortKind)],
                            hi |-> [sigma |-> k2, rows |-> highlight_anomalies(df, k2, sortKind)]])
    /\ UNCHANGED <<summary, sankey, snapshot, genVars, filterVars, aggVars, appVars>>

\* summary_payload = build_emission_summary(filtered_df)
BuildEmissionSummary ==
    /\ summary' = Some(build_emission_summary(df, sortKind))
    /\ UNCHANGED <<sweep, sankey, snapshot, genVars, filterVars, aggVars, appVars>>

\* render_zone_analytics: sankey_data = generate_sankey_data(df), drawn as a
\* flow diagram if sankey_data["values"] is a non-empty list
GenerateSankeyData ==
    /\ LET data == generate_sankey_data(df)
       IN  sankey' = Some([data |-> data, drawn |-> data.values # <<>>])
    /\ UNCHANGED <<sweep, summary, snapshot, genVars, filterVars, aggVars, appVars>>


(***************************************************************************)
(* Specifications                                                          *)
(***************************************************************************)
BufferIds == {"master", "filtered", "refiltered"}

(***************************************************************************)
(* Application Model: one browser session of app.py                        *)
(*                                                                         *)
(* Streamlit executes the script from top to bottom on every interaction:  *)
(* the widget the user touched returns its new value in that run, every    *)
(* other widget returns the value it was built with, and st.session_state  *)
(* carries the rest over.  st.stop() ends the run; st.rerun() ends it and  *)
(* schedules another run with no interaction.                              *)
(***************************************************************************)
ROLES == <<"Admin", "Analyst", "Ops Manager", "Regulator">>

\* the whitelist the "Apply manual IMO list" button stores
ManualImos == <<9100000>>

\* the two datasets the loader can return: the simulated sample, with a
\* record later than midnight on its last day, and the telemetry of the
\* listed vessels, with one vessel type and one fuel
SimulatedSample ==
    WithIndex(<< Rec(0,       "ECA",     "HFO", "Tanker",    1200),
                 Rec(Day + 1, "Non-ECA", "MGO", "Container", 1600) >>)

ParquetTelemetry ==
    WithIndex(<< Rec(Day, "ECA",     "HFO", "Tanker", 900),
                 Rec(Day, "Non-ECA", "HFO", "Tanker", 2000) >>)

\* load_emission_dataset(imo_whitelist), reached through load_dataset and
\* get_data_snapshot: the simulated sample unless IMOs are supplied
load_emission_dataset(imo_whitelist) ==
    IF imo_whitelist = <<>> THEN SimulatedSample ELSE ParquetTelemetry

\* what the user did to trigger a run: nothing (the page is opened or
\* refreshed), or one widget touched
NoInput ==
    [kind |-> "none", username |-> "", password |-> "", role |-> "Admin",
     sel |-> {}, range |-> <<>>]

\* the five filter keys as get_default_filters(df) fills them
DefaultKeys(recs) ==
    LET dflt == get_default_filters(recs)
    IN  [filter_start        |-> dflt.start,
         filter_end          |-> dflt.end,
         filter_zones        |-> dflt.zones,
         filter_vessel_types |-> dflt.vessel_types,
         filter_fuel_types   |-> dflt.fuel_types]

\* mutant: the button opens the dashboard whatever the fields hold
render_login_NoCredentials(s, in) ==
    LET authenticated == s.authenticated
        active_role   == IF authenticated THEN s.role ELSE None
    IN  IF authenticated /\ active_role # None
        THEN [session |-> s, rerun |-> FALSE,
              authenticated |-> authenticated, role |-> active_role]
        ELSE IF in.kind = "login"
        THEN [session |-> [s EXCEPT !.authenticated = TRUE, !.role = Some(in.role)],
              rerun |-> TRUE, authenticated |-> FALSE, role |-> None]
        ELSE [session |-> s, rerun |-> FALSE,
              authenticated |-> authenticated, role |-> active_role]

\* render_login(): the pair (authenticated, role) it returns, the session
\* it leaves and whether it called st.rerun()
render_login(s, in) ==
    LET authenticated == s.authenticated
        active_role   == IF authenticated THEN s.role ELSE None
    IN  IF authenticated /\ active_role # None
        THEN [session |-> s, rerun |-> FALSE,
              authenticated |-> authenticated, role |-> active_role]
        ELSE IF in.kind = "login" /\ in.username # "" /\ in.password # ""
        THEN [session |-> [s EXCEPT !.authenticated = TRUE, !.role = Some(in.role)],
              rerun |-> TRUE, authenticated |-> FALSE, role |-> None]
        ELSE [session |-> s, rerun |-> FALSE,
              authenticated |-> authenticated, role |-> active_role]

\* render_data_scope_controls(): the IMO filter the buttons leave
render_data_scope_controls(s, in) ==
    IF in.kind = "imo_apply" THEN [s EXCEPT !.imo_filter = ManualImos]
    ELSE IF in.kind = "imo_clear" THEN [s EXCEPT !.imo_filter = <<>>]
    ELSE s

\* mutant: the filter keys are reset to the defaults on every run
init_filter_state_Always(s, recs) == [s EXCEPT !.keys = Some(DefaultKeys(recs))]

\* init_filter_state(df)
init_filter_state(s, recs) ==
    IF s.keys = None THEN [s EXCEPT !.keys = Some(DefaultKeys(recs))] ELSE s

\* sorted(df[col].unique().tolist()), as a set
Options(recs, col) == {recs[i][col] : i \in 1..Len(recs)}

\* st.sidebar.multiselect(label, options, default): the user's selection
\* in the run they changed it, the default otherwise
multiselect(kind, default, in) == IF in.kind = kind THEN in.sel ELSE default

\* "if zones: st.session_state[...] = zones"
StoreSelection(selection, current) == IF selection # {} THEN selection ELSE current

\* render_sidebar(df, role): the session it leaves, whether it called
\* st.rerun(), whether a multiselect rejected a default value that is not
\* among its options, and the widgets it put on the page
render_sidebar(s, recs, in) ==
    LET k0 == s.keys[1]
        k1 == IF in.kind = "date_range"
              THEN [k0 EXCEPT !.filter_start = in.range[1], !.filter_end = in.range[2]]
              ELSE k0
        zonesOk  == k1.filter_zones \subseteq Options(recs, "Zone")
        k2 == [k1 EXCEPT !.filter_zones =
                  StoreSelection(multiselect("zones", k1.filter_zones, in), @)]
        typesOk  == k2.filter_vessel_types \subseteq Options(recs, "Vessel_Type")
        k3 == [k2 EXCEPT !.filter_vessel_types =
                  StoreSelection(multiselect("vessel_types", k2.filter_vessel_types, in), @)]
        fuelsOk  == k3.filter_fuel_types \subseteq Options(recs, "Fuel_Type")
        k4 == [k3 EXCEPT !.filter_fuel_types =
                  StoreSelection(multiselect("fuel_types", k3.filter_fuel_types, in), @)]
        dates == {"date_partial", "date_range"}
    IN  IF ~zonesOk
        THEN [session |-> [s EXCEPT !.keys = Some(k1)], rerun |-> FALSE, error |-> TRUE,
              widgets |-> dates]
        ELSE IF ~typesOk
        THEN [session |-> [s EXCEPT !.keys = Some(k2)], rerun |-> FALSE, error |-> TRUE,
              widgets |-> dates \cup {"zones"}]
        ELSE IF ~fuelsOk
        THEN [session |-> [s EXCEPT !.keys = Some(k3)], rerun |-> FALSE, error |-> TRUE,
              widgets |-> dates \cup {"zones", "vessel_types"}]
        ELSE IF in.kind = "reset"
        THEN [session |-> [s EXCEPT !.keys = Some(DefaultKeys(recs))],
              rerun |-> TRUE, error |-> FALSE, widgets |-> {}]
        ELSE IF in.kind = "logout"
        THEN [session |-> [s EXCEPT !.keys = Some(k4), !.authenticated = FALSE, !.role = None],
              rerun |-> TRUE, error |-> FALSE, widgets |-> {}]
        ELSE [session |-> [s EXCEPT !.keys = Some(k4)], rerun |-> FALSE, error |-> FALSE,
              widgets |-> dates \cup {"zones", "vessel_types", "fuel_types", "reset", "logout"}]

\* build_filter_set(): the FilterSet read from the five session keys
build_filter_set(s) ==
    LET k == s.keys[1]
    IN  [start        |-> k.filter_start,
         end          |-> k.filter_end,
         zones        |-> k.filter_zones,
         vessel_types |-> k.filter_vessel_types,
         fuel_types   |-> k.filter_fuel_types]

\* apply_filters(master_df, filters) on a dataset just loaded
FilteredFrame(recs, F) ==
    LET h == [b \in BufferIds |-> IF b = "master" THEN recs ELSE <<>>]
        r == apply_filters(h, [buf |-> "master", rows |-> [i \in 1..Len(recs) |-> i]],
                           F, "filtered")
    IN  Content(r.heap, r.df)

\* the calls every run makes up to the filter
Prelude ==
    << "render_login", "render_data_scope_controls", "load_dataset",
       "init_filter_state", "render_sidebar", "render_header",
       "build_filter_set", "apply_filters" >>

\* the aggregation, anomaly, flow and summary calls behind the filter
Renderers ==
    << "calculate_kpis", "quick_insight", "render_overview", "render_zone_analytics",
       "render_map", "render_vessel_table", "render_comparative_insights",
       "render_compliance_alerts", "build_emission_summary", "render_reports" >>

tab_labels ==
    << "Dashboard Overview", "Zone Analytics", "Emission Map", "Vessel Analytics",
       "Comparative Insights", "Compliance & Alerts", "Reports" >>

\* mutant: the script goes on to the tabs whatever the filter returned
Dashboard_NoStop(role, filtered_df) ==
    [stage  |-> "tabs",
     called |-> Prelude \o Renderers
                \o (IF role = Some("Admin") THEN <<"render_admin_panel">> ELSE <<>>),
     tabs   |-> tab_labels \o (IF role = Some("Admin") THEN <<"Admin Console">> ELSE <<>>)]

\* the script from the empty check to its end
Dashboard(role, filtered_df) ==
    IF filtered_df = <<>>
    THEN [stage |-> "empty", called |-> Prelude, tabs |-> <<>>]
    ELSE [stage  |-> "tabs",
          called |-> Prelude \o Renderers
                     \o (IF role = Some("Admin") THEN <<"render_admin_panel">> ELSE <<>>),
          tabs   |-> tab_labels \o (IF role = Some("Admin") THEN <<"Admin Console">> ELSE <<>>)]

\* one execution of app.py on session s with interaction in
Script(s, in) ==
    LET login == render_login(s, in)
        quiet == [filters |-> None, filtered |-> None, tabs |-> <<>>]
        scope == {"none", "imo_apply", "imo_clear"}
    IN  IF login.rerun
        THEN [session |-> login.session, stage |-> "rerun",
              called |-> <<"render_login">>, widgets |-> {}] @@ quiet
        ELSE IF ~login.authenticated \/ login.role = None
        THEN [session |-> login.session, stage |-> "login",
              called |-> <<"render_login">>, widgets |-> {"type", "login"}] @@ quiet
        ELSE LET s1        == render_data_scope_controls(login.session, in)
                 master_df == load_emission_dataset(s1.imo_filter)
                 s2        == init_filter_state(s1, master_df)
                 side      == render_sidebar(s2, master_df, in)
                 F         == build_filter_set(side.session)
                 filtered_df == FilteredFrame(master_df, F)
                 rest      == Dashboard(login.role, filtered_df)
             IN  IF side.error
                 THEN [session |-> side.session, stage |-> "error",
                       called |-> SubSeq(Prelude, 1, 5),
                       widgets |-> scope \cup side.widgets] @@ quiet
                 ELSE IF side.rerun
                 THEN [session |-> side.session, stage |-> "rerun",
                       called |-> SubSeq(Prelude, 1, 5), widgets |-> {}] @@ quiet
                 ELSE [session |-> side.session, stage |-> rest.stage,
                       called |-> rest.called, filters |-> Some(F),
                       filtered |-> Some(filtered_df), tabs |-> rest.tabs,
                       widgets |-> scope \cup side.widgets]

\* the dates the date picker offers
DateChoices == {0, Day}

\* the login form: typed or empty fields, any role, the button or not
LoginInputs ==
    [kind : {"type", "login"}, username : {"", "a.user"}, password : {"", "secret"},
     role : Range(ROLES), sel : {{}}, range : {<<>>}]

\* one interaction with the sidebar of the dataset recs
SidebarInputs(recs) ==
    LET plain(k) == [NoInput EXCEPT !.kind = k]
    IN  {plain(k) : k \in {"none", "imo_apply", "imo_clear", "date_partial", "reset", "logout"}}
        \cup {[plain("date_range") EXCEPT !.range = p] :
                  p \in {q \in DateChoices \X DateChoices : q[1] <= q[2]}}
        \cup {[plain("zones") EXCEPT !.sel = x] : x \in SUBSET Options(recs, "Zone")}
        \cup {[plain("vessel_types") EXCEPT !.sel = x] : x \in SUBSET Options(recs, "Vessel_Type")}
        \cup {[plain("fuel_types") EXCEPT !.sel = x] : x \in SUBSET Options(recs, "Fuel_Type")}

\* a new browser session: st.session_state is empty
NewSession ==
    [authenticated |-> FALSE, role |-> None, imo_filter |-> <<>>, keys |-> None]

\* before the page is opened: the first run has no interaction
NoRun ==
    [input |-> NoInput, before |-> NewSession, stage |-> "init", called |-> <<>>,
     filters |-> None, filtered |-> None, tabs |-> <<>>, widgets |-> {"none"}]

Execute(in) ==
    LET r == Script(session, in)
    IN  /\ session' = r.session
        /\ run' = [input |-> in, before |-> session, stage |-> r.stage,
                   called |-> r.called, filters |-> r.filters,
                   filtered |-> r.filtered, tabs |-> r.tabs, widgets |-> r.widgets]
        /\ UNCHANGED <<genVars, filterVars, aggVars, viewVars>>

\* the user touches one of the widgets on the page and the script runs
Run ==
    /\ run.stage # "rerun"
    /\ \E in \in LoginInputs \cup SidebarInputs(load_emission_dataset(session.imo_filter)) :
          /\ in.kind \in run.widgets
          /\ Execute(in)

\* st.rerun(): the script runs again with no interaction
Rerun ==
    /\ run.stage = "rerun"
    /\ Execute(NoInput)

IdleApp ==
    /\ session = NewSession
    /\ run = NoRun


IdleGen ==
    /\ now = 29 * Day + 1
    /\ prevGen = None
    /\ lastGen = None

IdleFilter ==
    /\ heap = [b \in BufferIds |-> <<>>]
    /\ master = [buf |-> "master", rows |-> <<>>]
    /\ D0 = <<>>
    /\ filters = [start |-> 0, end |-> 0, zones |-> {}, vessel_types |-> {}, fuel_types |-> {}]
    /\ filtered = None
    /\ refiltered = None
    /\ mutated = FALSE
    /\ defaults = None

IdleAgg ==
    /\ df = <<>>
    /\ co2_threshold = None
    /\ kpis = None
    /\ alert_result = None
    /\ time_series = None
    /\ anomalies = None

IdleView ==
    /\ sweep = None
    /\ summary = None
    /\ sankey = None
    /\ snapshot = None

\* the synthesizer, called repeatedly while the wall clock runs
InitGen ==
    /\ IdleGen
    /\ sortKind \in {"stable", "unstable"}
    /\ IdleFilter
    /\ IdleAgg
    /\ IdleView
    /\ IdleApp

NextGen == Generate \/ Tick

SpecGen == InitGen /\ [][NextGen]_vars

\* the filter model over every dataset and FilterSet within the bounds
InitFilter ==
    /\ IdleGen
    /\ sortKind = "stable"
    /\ \E s \in SeqsUpTo(FilterPool, MaxLen) :
          /\ D0 = WithIndex(s)
          /\ heap = [b \in BufferIds |-> IF b = "master" THEN WithIndex(s) ELSE <<>>]
          /\ master = [buf |-> "master", rows |-> [i \in 1..Len(s) |-> i]]
    /\ filters \in FilterSets
    /\ filtered = None
    /\ refiltered = None
    /\ mutated = FALSE
    /\ defaults = None
    /\ IdleAgg
    /\ IdleView
    /\ IdleApp

NextFilter == ApplyFilters \/ Reapply \/ MutateResult \/ GetDefaultFilters \/ ApplyDefaultFilters

SpecFilter == InitFilter /\ [][NextFilter]_vars


\* the aggregation engine over every slice within the bounds
InitAgg ==
    /\ IdleGen
    /\ sortKind \in {"stable", "unstable"}
    /\ IdleFilter
    /\ \E s \in SeqsUpTo(AggPool, MaxAggLen) : df = WithIndex(s)
    /\ co2_threshold = None
    /\ kpis = None
    /\ alert_result = None
    /\ time_series = None
    /\ anomalies = None
    /\ IdleView
    /\ IdleApp

NextAgg ==
    \/ CalculateKpis
    \/ RenderComplianceAlerts
    \/ RenderTimeSeries
    \/ HighlightAnomalies
    \/ RenderAdminPanel

SpecAgg == InitAgg /\ [][NextAgg]_vars

\* the summary, flow and detector views over every slice within the bounds
InitView ==
    /\ IdleGen
    /\ sortKind \in {"stable", "unstable"}
    /\ IdleFilter
    /\ \E s \in SeqsUpTo(ViewPool, MaxViewLen) : df = WithIndex(s)
    /\ co2_threshold = None
    /\ kpis = None
    /\ alert_result = None
    /\ time_series = None
    /\ anomalies = None
    /\ IdleView
    /\ IdleApp

NextView == BuildEmissionSummary \/ GenerateSankeyData

SpecView == InitView /\ [][NextView]_vars

\* the alert figures of the KPI strip, the zone cards and the alert list
NextAlerts == CalculateKpis \/ RenderComplianceAlerts \/ ZoneSnapshot

SpecAlerts == InitAgg /\ [][NextAlerts]_vars

\* a browser session of the dashboard, from the login screen on
InitApp ==
    /\ IdleGen
    /\ sortKind = "stable"
    /\ IdleFilter
    /\ IdleAgg
    /\ IdleView
    /\ IdleApp

NextApp == Run \/ Rerun

SpecApp == InitApp /\ [][NextApp]_vars

\* the detector alone, swept over sigma on the same slices
NextSweep == SweepAnomalies

SpecSweep == InitView /\ [][NextSweep]_vars


(***************************************************************************)
(* Claims                                                                  *)
(***************************************************************************)

\* C1: generate is deterministic: two calls with the same (row_count, seed),
\* at any two times, return identical records in identical order, vessel_name
\* and date included.
C1_GenerateDeterministic ==
    (/\ prevGen # None
     /\ lastGen # None
     /\ prevGen[1].rows = lastGen[1].rows
     /\ prevGen[1].seed = lastGen[1].seed)
    => prevGen[1].out = lastGen[1].out

\* the last tick of the calendar day that holds instant t
LastInstantOfDay(t) == Normalize(t) + Day - 1

\* what the filter contract keeps: start <= date <= last instant of the end
\* day, and zone, vessel type and fuel type each in the requested set
InFilterContract(rec, F) ==
    /\ F.start <= rec.Date
    /\ rec.Date <= LastInstantOfDay(F.end)
    /\ rec.Zone \in F.zones
    /\ rec.Vessel_Type \in F.vessel_types
    /\ rec.Fuel_Type \in F.fuel_types

\* C2: apply(D, F) returns exactly the records of D inside the filter
\* contract, the whole end day included at any timestamp granularity; none
\* other is kept, none such is dropped, and the result is no longer than D.
C2_ApplyKeepsExactly ==
    (filtered # None /\ ~mutated)
    => LET out == Content(heap, filtered[1])
       IN  /\ out = SelectSeq(D0, LAMBDA r : InFilterContract(r, filters))
           /\ Len(out) <= Len(D0)

\* C3: filtering is idempotent: apply(apply(D, F), F) has the same records in
\* the same order as apply(D, F).
C3_FilterIdempotent ==
    refiltered # None
    => Content(heap, refiltered[1]) = Content(heap, filtered[1])

\* a filter that kept some records and dropped others has been applied twice
C3_Witness ==
    /\ refiltered # None
    /\ Len(filtered[1].rows) > 0
    /\ Len(filtered[1].rows) < Len(D0)

\* res lists some of the records of D, unchanged, in D's relative order
IsOrderedSubseq(res, D) ==
    \E f \in [1..Len(res) -> 1..Len(D)] :
       /\ \A i, j \in 1..Len(res) : i < j => f[i] < f[j]
       /\ \A i \in 1..Len(res) : res[i] = D[f[i]]

\* C4: apply(D, F) leaves D unchanged and returns a new collection that does
\* not alias D: the kept records are in D's relative order with unchanged
\* fields, and no later write to the result shows in D.
C4_ApplyCopies ==
    /\ Content(heap, master) = D0
    /\ filtered # None
       => /\ filtered[1].buf # master.buf
          /\ ~mutated => IsOrderedSubseq(Content(heap, filtered[1]), D0)

\* the caller has overwritten a cell of a non-empty result, which now
\* differs from every record of D
C4_Witness ==
    /\ filtered # None
    /\ mutated
    /\ \E i \in 1..Len(filtered[1].rows) :
          Content(heap, filtered[1])[i] \notin Range(D0)

\* the threshold the caller has set: the session value, 15.0 by default
CallerThreshold == IF co2_threshold = None THEN DEFAULT_ALERT_THRESHOLD ELSE co2_threshold[1]

\* C5: the alert detector uses the caller's runtime threshold: for every
\* threshold set in the admin console the alert list is exactly the records
\* with co2_tons strictly above it, and the alert count counts the same.
C5_AlertsUseCallerThreshold ==
    /\ alert_result # None
       => Range(alert_result[1].alerts) =
             {df[i] : i \in {j \in 1..Len(df) : df[j].CO2_tons > CallerThreshold}}
    /\ (kpis # None /\ kpis[1].err = "")
       => kpis[1].alerts = Cardinality({j \in 1..Len(df) : df[j].CO2_tons > CallerThreshold})

\* sum of co2_tons (hundredths) over the records of df in zone z
ZoneCo2(z) == SumOver({i \in 1..Len(df) : df[i].Zone = z}, [i \in 1..Len(df) |-> df[i].CO2_tons])
AllCo2 == SumOver(1..Len(df), [i \in 1..Len(df) |-> df[i].CO2_tons])

\* C6: total_co2 is the sum of co2_tons; eca_percent is 100 * ECA sum / total
\* to the nearest tenth, 0 when the total is 0; on the three-record scenario
\* total_co2 = 35.0, eca_percent = 71.4 and only the first record is an alert.
C6_KpiTotals ==
    /\ kpis # None
       => /\ kpis[1].err = ""
          /\ ~kpis[1].total_co2.nan /\ kpis[1].total_co2.v = AllCo2
          /\ ~kpis[1].eca_percent.nan
          /\ IF AllCo2 = 0 THEN kpis[1].eca_percent.v = 0
             ELSE 2 * Abs(kpis[1].eca_percent.v * AllCo2 - 1000 * ZoneCo2("ECA")) <= AllCo2
          /\ df = Scenario
             => /\ kpis[1].total_co2.v = 3500
                /\ kpis[1].eca_percent.v = 714
                /\ kpis[1].alerts = 1
    /\ (alert_result # None /\ df = Scenario)
       => alert_result[1].alerts = <<Scenario[1]>>

\* both views have been computed on the scenario
C6_Witness == kpis # None /\ alert_result # None /\ df = Scenario

\* C7 as stated: for every non-empty dataset eca_percent + non_eca_percent
\* is 100 within 0.1.
C7_SharesSumTo100 ==
    (kpis # None /\ df # <<>>)
    => /\ kpis[1].err = ""
       /\ Abs(kpis[1].eca_percent.v + kpis[1].non_eca_percent.v - 1000) <= 1

\* C7 amended: for every non-empty dataset whose total co2_tons is not zero,
\* eca_percent + non_eca_percent is 100 within 0.1; when the total is zero
\* both shares are 0.
C7_SharesSumTo100_NonZeroTotal ==
    (kpis # None /\ df # <<>>)
    => /\ kpis[1].err = ""
       /\ ~kpis[1].eca_percent.nan /\ ~kpis[1].non_eca_percent.nan
       /\ IF AllCo2 # 0
          THEN Abs(kpis[1].eca_percent.v + kpis[1].non_eca_percent.v - 1000) <= 1
          ELSE kpis[1].eca_percent.v = 0 /\ kpis[1].non_eca_percent.v = 0

\* KPIs of a slice that mixes both zones, with shares that needed rounding
C7_Witness ==
    /\ kpis # None
    /\ AllCo2 # 0
    /\ ZoneCo2("ECA") # 0 /\ ZoneCo2("Non-ECA") # 0
    /\ kpis[1].eca_percent.v * AllCo2 # 1000 * ZoneCo2("ECA")

IsZero(k) == ~k.nan /\ k.v = 0

\* C8: on an empty dataset compute_kpis does not raise and every field of
\* the KPI set is zero.
C8_EmptyKpisAllZero ==
    (kpis # None /\ df = <<>>)
    => /\ kpis[1].err = ""
       /\ IsZero(kpis[1].total_co2)
       /\ IsZero(kpis[1].avg_co2)
       /\ IsZero(kpis[1].eca_percent)
       /\ IsZero(kpis[1].non_eca_percent)
       /\ IsZero(kpis[1].compliance_rate)
       /\ kpis[1].alerts = 0
       /\ IsZero(kpis[1].emission_intensity)
       /\ IsZero(kpis[1].eca_weekly_change)

\* the KPIs of the empty dataset have been computed
C8_Witness == kpis # None /\ df = <<>>

\* C9: time_series has one row per distinct date in ascending order, always
\* an ECA and a Non-ECA column, and each cell is the sum of co2_tons of that
\* (date, zone), 0 where there is no record.
C9_TimeSeriesShape ==
    time_series # None
    => LET ts == time_series[1]
           n  == Len(ts.rows)
       IN  /\ {ts.rows[k].Date : k \in 1..n} = {df[i].Date : i \in 1..Len(df)}
           /\ \A a, b \in 1..n : a < b => ts.rows[a].Date < ts.rows[b].Date
           /\ {"ECA", "Non-ECA"} \subseteq ts.columns
           /\ \A k \in 1..n :
                 /\ DOMAIN ts.rows[k].val = ts.columns
                 /\ \A z \in {"ECA", "Non-ECA"} :
                       ts.rows[k].val[z] =
                          SumOver({i \in 1..Len(df) : df[i].Date = ts.rows[k].Date /\ df[i].Zone = z},
                                  [i \in 1..Len(df) |-> df[i].CO2_tons])

\* a series over two dates of a slice that holds no Non-ECA record
C9_Witness ==
    /\ time_series # None
    /\ Len(time_series[1].rows) = 2
    /\ \A i \in 1..Len(df) : df[i].Zone = "ECA"

\* C10: on a slice of fewer than 2 records the outlier detector returns no
\* anomalies, for every sigma.
C10_FewRecordsNoAnomalies ==
    (anomalies # None /\ Len(df) < 2) => anomalies[1].rows = <<>>

\* the detector has run on a single record with a negative sigma
C10_Witness == anomalies # None /\ Len(df) = 1 /\ anomalies[1].sigma < 0

\* C11: anomaly detection is monotone in sigma: for 0 <= sigma1 <= sigma2 the
\* records flagged at sigma2 are among those flagged at sigma1, and are no
\* more numerous.
C11_AnomaliesMonotone ==
    (sweep # None /\ sweep[1].lo.sigma >= 0)
    => /\ Range(sweep[1].hi.rows) \subseteq Range(sweep[1].lo.rows)
       /\ Len(sweep[1].hi.rows) <= Len(sweep[1].lo.rows)

\* a larger non-negative sigma has flagged some, but fewer, records
C11_Witness ==
    /\ sweep # None
    /\ 0 <= sweep[1].lo.sigma /\ sweep[1].lo.sigma < sweep[1].hi.sigma
    /\ sweep[1].hi.rows # <<>>
    /\ Len(sweep[1].hi.rows) < Len(sweep[1].lo.rows)

\* a ranks before b: more co2_tons, or as much and an earlier row of the input
RanksBefore(a, b) ==
    \/ a.CO2_tons > b.CO2_tons
    \/ a.CO2_tons = b.CO2_tons /\ a.idx < b.idx

SortedDescStable(rows) ==
    \A i, j \in 1..Len(rows) : i < j => RanksBefore(rows[i], rows[j])

\* C12: the alert list and the anomaly list are sorted by co2_tons
\* descending, and records with equal co2_tons keep the relative order they
\* have in the input dataset.
C12_ListsSortedStable ==
    /\ alert_result # None => SortedDescStable(alert_result[1].alerts)
    /\ anomalies # None => SortedDescStable(anomalies[1].rows)

\* summed co2_tons (hundredths) of the records of df with fuel f in zone z
PairCo2(f, z) ==
    SumOver({i \in 1..Len(df) : df[i].Fuel_Type = f /\ df[i].Zone = z},
            [i \in 1..Len(df) |-> df[i].CO2_tons])

\* the label at 0-based position i of the node list, "?" if there is none
NodeAt(data, i) == IF i \in 0..(Len(data.nodes) - 1) THEN data.nodes[i + 1] ELSE "?"

FuelLabels == Range(FUEL_TYPES)
ZoneLabels == {"ECA Emissions", "Non-ECA Emissions"}

\* the flow result has an edge from fuel f to zone z
HasEdge(data, f, z) ==
    \E k \in 1..Len(data.values) :
       /\ k \in DOMAIN data.sources /\ NodeAt(data, data.sources[k]) = f
       /\ k \in DOMAIN data.targets /\ NodeAt(data, data.targets[k]) = ZoneLabel(z)

\* C13: flow_decomposition emits no zero-weight edge: every value is
\* strictly positive and a (fuel, zone) pair whose summed co2_tons is 0 has
\* no edge.
C13_NoZeroWeightEdge ==
    sankey # None
    => LET data == sankey[1].data
       IN  /\ \A k \in 1..Len(data.values) : data.values[k] > 0
           /\ \A f \in FuelLabels, z \in Range(ZONES) :
                 PairCo2(f, z) = 0 => ~HasEdge(data, f, z)

\* the empty flow result
EmptyFlow == [nodes |-> <<>>, sources |-> <<>>, targets |-> <<>>, values |-> <<>>]

\* C14: when no (fuel, zone) pair has a positive summed co2_tons (empty
\* dataset, or every co2_tons 0) flow_decomposition returns the empty result
\* and the caller draws nothing.
C14_EmptyFlowWhenNothingPositive ==
    (sankey # None /\ \A f \in FuelLabels, z \in Range(ZONES) : PairCo2(f, z) <= 0)
    => /\ sankey[1].data = EmptyFlow
       /\ ~sankey[1].drawn

\* C15: sources, targets and values have equal length, every source and
\* target index is a position of the node list, every source is a fuel node
\* and every target a zone node.
C15_FlowIndicesValid ==
    sankey # None
    => LET data == sankey[1].data
           last == Len(data.nodes) - 1
       IN  /\ Len(data.sources) = Len(data.values)
           /\ Len(data.targets) = Len(data.values)
           /\ \A k \in 1..Len(data.sources) :
                 data.sources[k] \in 0..last /\ NodeAt(data, data.sources[k]) \in FuelLabels
           /\ \A k \in 1..Len(data.targets) :
                 data.targets[k] \in 0..last /\ NodeAt(data, data.targets[k]) \in ZoneLabels

\* a flow with two fuel nodes, one of them feeding both zones
C15_Witness ==
    /\ sankey # None
    /\ Len(sankey[1].data.nodes) = 4
    /\ Len(sankey[1].data.values) = 3

\* total weight on the edges that leave a fuel node / enter a zone node
OutOfFuelNodes(data) ==
    SumOver({k \in 1..Len(data.values) : NodeAt(data, data.sources[k]) \in FuelLabels}, data.values)
IntoZoneNodes(data) ==
    SumOver({k \in 1..Len(data.values) : NodeAt(data, data.targets[k]) \in ZoneLabels}, data.values)

\* C16: flow weight is conserved: the weight leaving all fuel nodes equals
\* the weight entering all zone nodes.
C16_FlowConservation ==
    sankey # None => OutOfFuelNodes(sankey[1].data) = IntoZoneNodes(sankey[1].data)

\* a flow of positive weight into both zone nodes
C16_Witness ==
    /\ sankey # None
    /\ OutOfFuelNodes(sankey[1].data) > 0
    /\ \A z \in Range(ZONES) :
          \E k \in 1..Len(sankey[1].data.values) :
             /\ NodeAt(sankey[1].data, sankey[1].data.targets[k]) = ZoneLabel(z)
             /\ sankey[1].data.values[k] > 0

\* C17: the top emitters of summary(D) are the min(5, len(D)) records of D
\* with the highest co2_tons, in descending order, equal co2_tons ranked and
\* cut off by original row order.
C17_TopEmittersStable ==
    summary # None
    => LET top == summary[1].top_emitters
       IN  /\ Len(top) = (IF Len(df) < 5 THEN Len(df) ELSE 5)
           /\ \A i \in 1..Len(top) : top[i] \in Range(df)
           /\ SortedDescStable(top)
           /\ \A p \in 1..Len(df) :
                 df[p] \notin Range(top) => \A i \in 1..Len(top) : RanksBefore(top[i], df[p])

\* the exceptions by which Python code reports an invalid argument value
InvalidArgument == {"ValueError"}

\* C18: generate(row_count, seed) with row_count <= 0 fails with an
\* InvalidArgument error and returns no dataset.
C18_NonPositiveRowsRejected ==
    (lastGen # None /\ lastGen[1].rows <= 0)
    => /\ lastGen[1].out.err \in InvalidArgument
       /\ lastGen[1].out.df = <<>>

\* C19: a FilterSet whose start is after its end is rejected: applying it
\* never returns a dataset, empty or not.
C19_InvertedBoundsRejected ==
    filtered # None => filters.start <= filters.end

\* the least / greatest Date of the dataset as loaded
MinDate0 == CHOOSE t \in {D0[i].Date : i \in 1..Len(D0)} : \A i \in 1..Len(D0) : t <= D0[i].Date
MaxDate0 == CHOOSE t \in {D0[i].Date : i \in 1..Len(D0)} : \A i \in 1..Len(D0) : t >= D0[i].Date

\* C20: default_filters(D) has start = the day of min(date), end = the day of
\* max(date), and zones, vessel_types and fuel_types each exactly the set of
\* values observed in D.
C20_DefaultsAreObserved ==
    defaults # None
    => /\ defaults[1].start = Normalize(MinDate0)
       /\ defaults[1].end = Normalize(MaxDate0)
       /\ defaults[1].zones = {D0[i].Zone : i \in 1..Len(D0)}
       /\ defaults[1].vessel_types = {D0[i].Vessel_Type : i \in 1..Len(D0)}
       /\ defaults[1].fuel_types = {D0[i].Fuel_Type : i \in 1..Len(D0)}

\* the records of the last successful generate call
Generated == IF lastGen # None /\ lastGen[1].out.err = "" THEN lastGen[1].out.df ELSE <<>>

\* C23: every generated record has zone in {ECA, Non-ECA}, fuel_type in
\* {HFO, MGO, LNG, Hybrid} and a stored co2_tons within [4.5, 24].
C23_GeneratedDomains ==
    \A i \in 1..Len(Generated) :
       /\ Generated[i].Zone \in {"ECA", "Non-ECA"}
       /\ Generated[i].Fuel_Type \in {"HFO", "MGO", "LNG", "Hybrid"}
       /\ 450 <= Generated[i].CO2_tons /\ Generated[i].CO2_tons <= 2400

\* a generated dataset holds a record at the lower bound and one at the upper
C23_Witness ==
    /\ \E i \in 1..Len(Generated) : Generated[i].CO2_tons = 450
    /\ \E i \in 1..Len(Generated) : Generated[i].CO2_tons = 2400

\* C24: the generated dataset is sorted by date ascending, and records of
\* equal date are in generation order (smaller index first).
C24_GeneratedSortedStable ==
    \A i, j \in 1..Len(Generated) :
       i < j => \/ Generated[i].Date < Generated[j].Date
                \/ Generated[i].Date = Generated[j].Date /\ Generated[i].idx < Generated[j].idx

\* whether generated record r was selected for the noise flip
Flipped(r) == NoiseFlip(Draw(lastGen[1].seed, lastGen[1].rows, 10, r.idx + 1))

\* C26: compliance_flag of a generated record is (co2_tons < 15.0) on the
\* record's own stored co2_tons when the record was not selected for the
\* noise flip, and the negation of that when it was.
C26_ComplianceMatchesStoredCo2 ==
    \A i \in 1..Len(Generated) :
       Generated[i].Compliance_Flag =
          (IF Flipped(Generated[i]) THEN ~(Generated[i].CO2_tons < 1500)
           ELSE Generated[i].CO2_tons < 1500)

\* the calendar day of instant t, and of the latest record of df
DayOf(t) == t \div Day
LatestDay == DayOf(CHOOSE t \in {df[i].Date : i \in 1..Len(df)} : \A i \in 1..Len(df) : df[i].Date <= t)

\* ECA co2_tons (hundredths) of the records of df dated from day a to day b
EcaCo2OfDays(a, b) ==
    SumOver({i \in 1..Len(df) : df[i].Zone = "ECA" /\ a <= DayOf(df[i].Date) /\ DayOf(df[i].Date) <= b},
            [i \in 1..Len(df) |-> df[i].CO2_tons])

\* C25: the week-over-week ECA change compares the 7 days ending at the
\* latest date with the 7 days immediately before them, two disjoint
\* windows, and is 0 whenever the ECA total of the prior window is 0.
C25_WeekWindows ==
    (kpis # None /\ df # <<>>)
    => LET week == EcaCo2OfDays(LatestDay - 6, LatestDay)
           prev == EcaCo2OfDays(LatestDay - 13, LatestDay - 7)
       IN  /\ kpis[1].err = ""
           /\ ~kpis[1].eca_weekly_change.nan
           /\ kpis[1].eca_weekly_change.v =
                 (IF prev = 0 THEN 0 ELSE RoundHalfEven((week - prev) * 1000, prev))

\* C27: default filters select everything: for every non-empty dataset D,
\* apply(D, default_filters(D)) returns all records of D in the same order.
C27_DefaultsSelectEverything ==
    (D0 # <<>> /\ filtered # None /\ ~mutated /\ defaults # None /\ filters = defaults[1])
    => Content(heap, filtered[1]) = D0

\* number of records of df with co2_tons > 15.0
OverFifteen == Cardinality({i \in 1..Len(df) : df[i].CO2_tons > 1500})

\* C29: the alert figures agree across views of the same dataset: the
\* alerts count of the KPIs, the number of rows of the compliance summary's
\* alert list and the sum of the alerts over the zone cards each equal the
\* number of records with co2_tons > 15.0.
C29_AlertFiguresAgree ==
    /\ kpis # None => kpis[1].err = "" /\ kpis[1].alerts = OverFifteen
    /\ alert_result # None => Len(alert_result[1].alerts) = OverFifteen
    /\ snapshot # None
       => SumSeq([k \in 1..Len(snapshot[1]) |-> snapshot[1][k].alerts]) = OverFifteen

\* the three views of a slice with a card for each zone, an alert and a
\* record at exactly the threshold
C29_Witness ==
    /\ kpis # None /\ alert_result # None /\ snapshot # None
    /\ Len(snapshot[1]) = 2
    /\ OverFifteen > 0
    /\ \E i \in 1..Len(df) : df[i].CO2_tons = 1500


(***************************************************************************)
(* The application: sidebar selections, the empty result, the login gate   *)
(***************************************************************************)
\* the values of a dimension in the dataset the last run loaded
FullSet(col) == Options(load_emission_dataset(session.imo_filter), col)

\* the user emptied the multiselect of one dimension in the last run
Emptied(kind) == run.input.kind = kind /\ run.input.sel = {} /\ run.filters # None

\* C21: whenever the user's current selection for a dimension is empty, the
\* FilterSet built for that run holds every value of that dimension, not
\* a subset chosen earlier.
C21_EmptySelectionIsFullSet ==
    /\ Emptied("zones") => FullSet("Zone") \subseteq run.filters[1].zones
    /\ Emptied("vessel_types") => FullSet("Vessel_Type") \subseteq run.filters[1].vessel_types
    /\ Emptied("fuel_types") => FullSet("Fuel_Type") \subseteq run.filters[1].fuel_types

\* C22: in every run in which apply_filters returned an empty dataset, none
\* of calculate_kpis, quick_insight, the tab renderers and
\* build_emission_summary is called.
C22_ShortCircuitOnEmpty ==
    run.filtered = Some(<<>>) =>
        \A i \in 1..Len(run.called) : run.called[i] \notin Range(Renderers)

C22_Witness ==
    /\ run.filtered = Some(<<>>)
    /\ run.stage = "empty"
    /\ run.called = Prelude

\* the calls behind the login gate: everything but render_login
Gated == Range(Prelude) \cup Range(Renderers) \cup {"render_admin_panel"}

\* the gate, the login form, the logout button and the admin tab in one run
C28_Gate ==
    /\ (\E i \in 1..Len(run.called) : run.called[i] \in Gated \ {"render_login"})
          => run.before.authenticated /\ run.before.role # None
    /\ (~run.before.authenticated /\ session.authenticated)
          => /\ run.input.kind = "login"
             /\ run.input.username # ""
             /\ run.input.password # ""
    /\ run.input.kind = "logout" => ~session.authenticated /\ session.role = None
    /\ (\E i \in 1..Len(run.tabs) : run.tabs[i] = "Admin Console")
          => run.before.role = Some("Admin")
    /\ (\E i \in 1..Len(run.called) : run.called[i] = "render_admin_panel")
          => run.before.role = Some("Admin")

\* the run that follows a logout stops at the login screen
C28_AfterLogout == run.input.kind = "logout" => run'.stage = "login"

\* C28: the dataset is loaded and the filters, KPIs and tabs are rendered
\* only in a run that starts authenticated with a role; authenticated turns
\* true only on Enter Dashboard with a non-empty user id and passcode; Log
\* out leaves authenticated false and role None and the next run stops at
\* the login screen; the Admin Console tab is rendered only for role Admin.
C28_AuthenticationGates == [] C28_Gate /\ [][C28_AfterLogout]_vars

\* the login screen again, after a session that reached the dashboard
C28_Witness ==
    /\ run.stage = "login"
    /\ run.called = <<"render_login">>
    /\ session.keys # None
    /\ ~session.authenticated
    /\ session.role = None

\* the defaults of the dataset the last run loaded
CurrentDefaults == DefaultKeys(load_emission_dataset(session.imo_filter))

\* key k of the five differs between the start and the end of the last run
KeyChanged(k) == run.before.keys[1][k] # session.keys[1][k]

\* the last run stored a non-empty selection under key k
Selected(kind, k) ==
    /\ run.input.kind = kind
    /\ run.input.sel # {}
    /\ session.keys[1][k] = run.input.sel

\* the last run stored a completed date range
RangeEntered ==
    /\ run.input.kind = "date_range"
    /\ session.keys[1].filter_start = run.input.range[1]
    /\ session.keys[1].filter_end = run.input.range[2]

\* the last run was Reset Filters and left the defaults of its dataset
ResetDone == run.input.kind = "reset" /\ session.keys = Some(CurrentDefaults)

\* C30: the five filter keys are filled from the defaults of the loaded
\* dataset in the run that finds them absent and never removed; in every
\* later run, a change of the IMO filter, a logout and a login included,
\* a key changes only by a non-empty selection of its multiselect, by a
\* completed date range, or by Reset Filters, which leaves all five at
\* the defaults of the current dataset.
C30_FilterKeysFrame ==
    /\ (run.before.keys = None /\ session.keys # None)
          => session.keys = Some(CurrentDefaults)
    /\ run.before.keys # None => session.keys # None
    /\ run.input.kind = "reset" => ResetDone
    /\ run.before.keys # None =>
          /\ KeyChanged("filter_start") \/ KeyChanged("filter_end")
                => RangeEntered \/ ResetDone
          /\ KeyChanged("filter_zones") => Selected("zones", "filter_zones") \/ ResetDone
          /\ KeyChanged("filter_vessel_types")
                => Selected("vessel_types", "filter_vessel_types") \/ ResetDone
          /\ KeyChanged("filter_fuel_types")
                => Selected("fuel_types", "filter_fuel_types") \/ ResetDone

\* the IMO filter replaced the dataset and the keys stayed as they were,
\* away from the defaults of the new dataset
C30_Witness ==
    /\ run.input.kind = "imo_apply"
    /\ run.before.imo_filter # session.imo_filter
    /\ run.before.keys # None
    /\ session.keys = run.before.keys
    /\ session.keys # Some(CurrentDefaults)

====
